---- MODULE Spec2Model ----
(***************************************************************************)
(* State-machine model of the REST controllers of the store backend:       *)
(*   - src/src/controllers/products.js  (product router and URL helpers)   *)
(*   - src/unnamed/part_000             (variation router, helper copy)    *)
(*   - src/unnamed/part_001             (site-settings router)             *)
(* The managed database and the object storage are external collaborators: *)
(* every answer they can give is an input of the step that calls them.     *)
(* One step of the model is one synchronous run of a handler between two   *)
(* awaits.                                                                  *)
(***************************************************************************)
EXTENDS Naturals, Sequences, FiniteSets

\* ------------------------------------------------------------------ bounds
\* length of an images array handed to the helpers
MaxImages == 2
\* number of distinct internal storage keys
MaxKeys == 2
\* rows of the products table
MaxProducts == 1
\* files of one multipart request (multer allows 5)
MaxFiles == 1
\* images of one products row
MaxRowImages == 1
\* requests the settings router serves at the same time
MaxConcurrent == 2

VARIABLES
  driver,      \* which entry point this behaviour exercises
  input,       \* helper entry: the row handed to the helper
  job,         \* rows being converted by productWithAccessibleImages
  tasks,       \* makeAccessibleUrl invocations of the job, in call order
  clones,      \* the converted rows (the helpers' return values)
  jpc,         \* position of the conversion: idle, mapping, collected, variation
  last,        \* helper entry: the makeAccessibleUrl invocation that ran the
               \* latest step, with the storage calls it made
  products,    \* table products: id -> row
  variations,  \* table product_variations
  req,         \* product router: the request being served
  user,        \* req.user as left by the optional-auth middleware
  hpc,         \* product router: position of the handler
  loc,         \* product router: the handler's locals
  resp,        \* product router: the response sent
  ops,         \* database and storage operations of the request, in order
  settings,    \* table site_settings: key -> row
  sreq         \* settings router: the requests being served, one per slot

helperVars == <<job, tasks, clones, jpc, last>>
productVars == <<products, variations, req, user, hpc, loc, resp, ops>>
settingsVars == <<settings, sreq>>
vars == <<driver, input, helperVars, productVars, settingsVars>>

\* ------------------------------------------------------------------ values
\* A JavaScript value found in an images array: null, '', an internal
\* storage key, a string that already starts with http:// or https://, or a
\* URL made by the storage service for a key.
Null == [kind |-> "null", ref |-> 0]
Empty == [kind |-> "empty", ref |-> 0]
Key(n) == [kind |-> "key", ref |-> n]
Http(n) == [kind |-> "http", ref |-> n]
Https(n) == [kind |-> "https", ref |-> n]
PublicUrl(k) == [kind |-> "public", ref |-> k.ref]
SignedUrl(k) == [kind |-> "signed", ref |-> k.ref]

Keys == {Key(n) : n \in 1..MaxKeys}
InputValues == {Null, Empty, Http(1), Https(1)} \cup Keys

\* JavaScript truthiness of such a value (Boolean(v), !v)
Truthy(v) == v.kind \notin {"null", "empty"}

\* /^(http|https):\/\//.test(key)
IsHttpUrl(v) == v.kind \in {"http", "https"}

\* An images field: not an array at all (undefined, null), or an array
NoArray == [arr |-> FALSE, items |-> <<>>]
Arr(s) == [arr |-> TRUE, items |-> s]

RECURSIVE SeqsUpTo(_, _)
SeqsUpTo(S, n) ==
  IF n = 0 THEN {<<>>}
  ELSE LET shorter == SeqsUpTo(S, n - 1)
       IN shorter \cup {Append(s, v) : s \in {t \in shorter : Len(t) = n - 1}, v \in S}

InputImages == {NoArray} \cup {Arr(s) : s \in SeqsUpTo(InputValues, MaxImages)}

\* ------------------------------------------------------- storage answers
\* getPublicUrl: { data: { publicUrl } }, the old { publicURL }, an object
\* with neither, or an exception
PubAnswers == {"data.publicUrl", "publicURL", "none", "throw"}
\* createSignedUrl: { error }, { data: { signedURL } }, data without
\* signedURL, or a rejected promise
SignAnswers == {"error", "signedURL", "none", "throw"}

\* pub?.data?.publicUrl || pub?.publicURL || null
PublicUrlOrNull(ans, key) ==
  IF ans \in {"data.publicUrl", "publicURL"} THEN PublicUrl(key) ELSE Null

Call(op, ans) == [op |-> op, ans |-> ans]

\* ------------------------------------------------------ makeAccessibleUrl
NewTask(p, key) ==
  [prod |-> p, key |-> key, pc |-> "start", pub |-> "unset",
   calls |-> <<>>, result |-> Null]

\* the catch block: one more getPublicUrl, null if that throws too
MAUCatch(t, a2) ==
  [t EXCEPT !.pc = "done",
            !.calls = Append(@, Call("getPublicUrl", a2)),
            !.result = PublicUrlOrNull(a2, t.key)]

\* from the call to the first await (or to the return): a1 is the answer of
\* getPublicUrl, a2 the answer of the getPublicUrl of the catch block
\* a faulty variant: the public URL is not looked at before the signed URL
\* is requested
MAUBeginSignedAlways(t, a1, a2) ==
  IF ~Truthy(t.key) THEN [t EXCEPT !.pc = "done", !.result = Null]
  ELSE IF IsHttpUrl(t.key) THEN [t EXCEPT !.pc = "done", !.result = t.key]
  ELSE LET called == [t EXCEPT !.calls = Append(@, Call("getPublicUrl", a1))]
       IN IF a1 = "throw" THEN MAUCatch(called, a2)
          ELSE [called EXCEPT !.pub = a1, !.pc = "awaitSigned"]

MAUBegin(t, a1, a2) ==
  IF ~Truthy(t.key) THEN [t EXCEPT !.pc = "done", !.result = Null]
  ELSE IF IsHttpUrl(t.key) THEN [t EXCEPT !.pc = "done", !.result = t.key]
  ELSE LET called == [t EXCEPT !.calls = Append(@, Call("getPublicUrl", a1))]
       IN IF a1 = "throw" THEN MAUCatch(called, a2)
          ELSE IF a1 \in {"data.publicUrl", "publicURL"}
               THEN [called EXCEPT !.pub = a1, !.pc = "done",
                                   !.result = PublicUrl(t.key)]
          ELSE [called EXCEPT !.pub = a1, !.pc = "awaitSigned"]

\* a faulty variant: a rejected createSignedUrl is tried once more
MAUResumeRetrySigned(t, s, a2) ==
  LET called == [t EXCEPT !.calls = Append(@, Call("createSignedUrl", s))]
  IN IF s = "throw"
     THEN MAUCatch([called EXCEPT !.calls = Append(@, Call("createSignedUrl", s))], a2)
     ELSE IF s = "signedURL"
          THEN [called EXCEPT !.pc = "done", !.result = SignedUrl(t.key)]
     ELSE [called EXCEPT !.pc = "done", !.result = PublicUrlOrNull(t.pub, t.key)]

\* the continuation after await createSignedUrl: s is its answer
MAUResume(t, s, a2) ==
  LET called == [t EXCEPT !.calls = Append(@, Call("createSignedUrl", s))]
  IN IF s = "throw" THEN MAUCatch(called, a2)
     ELSE IF s = "error"
          THEN [called EXCEPT !.pc = "done", !.result = PublicUrlOrNull(t.pub, t.key)]
     ELSE IF s = "signedURL"
          THEN [called EXCEPT !.pc = "done", !.result = SignedUrl(t.key)]
     ELSE [called EXCEPT !.pc = "done", !.result = PublicUrlOrNull(t.pub, t.key)]

\* -------------------------------------------- productWithAccessibleImages
\* a faulty variant: the null filter is missing
FilterBooleanKeepAll(urls) == urls

\* urls.filter(Boolean)
FilterBoolean(urls) == SelectSeq(urls, Truthy)

\* the makeAccessibleUrl invocations of one row, in array order
TasksOf(p, row) ==
  IF row.images.arr
  THEN [i \in 1..Len(row.images.items) |-> NewTask(p, row.images.items[i])]
  ELSE <<>>

RECURSIVE TasksOfJob(_, _)
TasksOfJob(rows, p) ==
  IF p > Len(rows) THEN <<>>
  ELSE TasksOf(p, rows[p]) \o TasksOfJob(rows, p + 1)

\* the results of the invocations of row p, in array order (Promise.all)
UrlsOf(ts, p) ==
  LET mine == SelectSeq(ts, LAMBDA t : t.prod = p)
  IN [i \in 1..Len(mine) |-> mine[i].result]

\* clone.images and clone.image of a converted product
ProductClone(row, urls) ==
  LET imgs == IF row.images.arr /\ Len(row.images.items) > 0
              THEN FilterBoolean(urls) ELSE <<>>
  IN [src |-> row, images |-> imgs, hasImage |-> TRUE,
      image |-> IF Len(imgs) > 0 THEN imgs[1] ELSE Null]

\* no invocation has run yet
NoTask == [prod |-> 0, key |-> Null, pc |-> "none", pub |-> "unset",
           calls |-> <<>>, result |-> Null]

\* an invocation that returned leaves only its promise's value behind
Settled(t) ==
  IF t.pc = "done" THEN [t EXCEPT !.pub = "unset", !.calls = <<>>] ELSE t

\* the record of an invocation's calls is kept under the helper entry
Recorded(t) == IF driver = "helper" THEN t ELSE NoTask

\* the synchronous start of productWithAccessibleImages over the rows
StartJob(rows) ==
  /\ job' = rows
  /\ tasks' = TasksOfJob(rows, 1)
  /\ clones' = <<>>
  /\ jpc' = "mapping"
  /\ last' = NoTask

\* nothing is being converted
ClearJob ==
  /\ job' = <<>>
  /\ tasks' = <<>>
  /\ clones' = <<>>
  /\ jpc' = "idle"
  /\ last' = NoTask

\* the answers of the catch block's getPublicUrl: it is called only when
\* the call before it threw
CatchAnswers(a) == IF a = "throw" THEN PubAnswers ELSE {"none"}

\* images.map(async imgKey => makeAccessibleUrl(imgKey)): the invocations
\* start in array order, each running to its first await
MapBegin ==
  /\ jpc = "mapping"
  /\ \E i \in 1..Len(tasks) :
       /\ tasks[i].pc = "start"
       /\ \A j \in 1..(i - 1) : tasks[j].pc # "start"
       /\ \E a1 \in PubAnswers : \E a2 \in CatchAnswers(a1) :
            LET t == MAUBegin(tasks[i], a1, a2)
            IN /\ tasks' = [tasks EXCEPT ![i] = Settled(t)]
               /\ last' = Recorded(t)
  /\ UNCHANGED <<driver, input, job, clones, jpc, productVars, settingsVars>>

\* a pending createSignedUrl settles; pending ones settle in any order
MapResume ==
  /\ jpc = "mapping"
  /\ \A j \in 1..Len(tasks) : tasks[j].pc # "start"
  /\ \E i \in 1..Len(tasks) :
       /\ tasks[i].pc = "awaitSigned"
       /\ \E s \in SignAnswers : \E a2 \in CatchAnswers(s) :
            LET t == MAUResume(tasks[i], s, a2)
            IN /\ tasks' = [tasks EXCEPT ![i] = Settled(t)]
               /\ last' = Recorded(t)
  /\ UNCHANGED <<driver, input, job, clones, jpc, productVars, settingsVars>>

\* await Promise.all(...) resolves: filter, images, image
MapCollect ==
  /\ jpc = "mapping"
  /\ \A j \in 1..Len(tasks) : tasks[j].pc = "done"
  /\ clones' = [p \in 1..Len(job) |-> ProductClone(job[p], UrlsOf(tasks, p))]
  /\ jpc' = "collected"
  /\ UNCHANGED <<driver, input, job, tasks, last, productVars, settingsVars>>

\* ------------------------------------------- variationWithAccessibleImages
\* the callback of the variation helpers: getPublicUrl only, null otherwise
VariationUrl(key, a) ==
  IF a \in {"data.publicUrl", "publicURL"} THEN PublicUrl(key) ELSE Null

\* products.js copy: sets image as well
variationWithAccessibleImages(row, answers) ==
  LET imgs == IF row.images.arr /\ Len(row.images.items) > 0
              THEN FilterBoolean([i \in 1..Len(row.images.items) |->
                                    VariationUrl(row.images.items[i], answers[i])])
              ELSE <<>>
  IN [src |-> row, images |-> imgs, hasImage |-> TRUE,
      image |-> IF Len(imgs) > 0 THEN imgs[1] ELSE Null]

\* variation router copy: images only
variationWithAccessibleImagesV(row, answers) ==
  [variationWithAccessibleImages(row, answers) EXCEPT !.hasImage = FALSE, !.image = Null]

\* ------------------------------------------------------------ tables
ProductIds == 1..MaxProducts

NoRow == [id |-> 0, is_active |-> "null", images |-> NoArray, type |-> "", price |-> 0]

\* a row of products: id, is_active, images, type and price (in centavos)
Product(id, active, imgs, type, price) ==
  [id |-> id, is_active |-> active, images |-> imgs, type |-> type, price |-> price]

Row(id, active, imgs) == Product(id, active, imgs, "camisa", 0)

\* rows the products table may hold when the server starts
StoredRows(id) ==
  {Row(id, a, imgs) : a \in {"true", "false"},
                      imgs \in {Arr(s) : s \in SeqsUpTo({Https(1), Key(1)}, MaxRowImages)}}
    \cup {Row(id, "null", NoArray)}

\* rows of product_variations: id, product_id, is_active, images
Variation(id, pid, active, imgs) ==
  [id |-> id, product_id |-> pid, is_active |-> active, images |-> imgs]

\* images of one product_variations row
MaxVariationImages == 1

StoredVariations ==
  {<<>>,
   <<Variation(1, 1, "false", Arr(<<Key(1)>>)), Variation(2, 1, "true", Arr(<<Key(2)>>))>>}

\* -------------------------------------------------------- helper entry
HelperRow(imgs) == Row(1, "true", imgs)

\* the fields of req.body the variations router looks at
NoBody == [product_id |-> "undefined", name |-> "undefined"]

\* the parameters of req.query the listing looks at: types and categories
\* as the parts split(',') gives (no part: the parameter is absent or
\* empty), priceRange as it is
NoQuery == [types |-> <<>>, categories |-> <<>>, priceRange |-> ""]

NoReq == [route |-> "none", token |-> "none", id |-> 0, files |-> 0, body |-> NoBody,
          query |-> NoQuery]
NoLoc == [prod |-> NoRow, imageKeys |-> <<>>, i |-> 0, changes |-> NoArray]
NoResp == [status |-> 0, body |-> "none", products |-> <<>>,
           warning |-> FALSE, variations |-> <<>>]

\* the product router at rest over empty tables
ProductsIdleTables ==
  /\ products = [id \in ProductIds |-> NoRow]
  /\ variations = <<>>
  /\ req = NoReq
  /\ user = "none"
  /\ hpc = "idle"
  /\ loc = NoLoc
  /\ resp = NoResp
  /\ ops = <<>>

\* the settings router at rest
SettingsIdle ==
  /\ settings = <<>>
  /\ sreq = <<>>

InitHelper ==
  /\ driver = "helper"
  /\ input \in {HelperRow(imgs) : imgs \in InputImages}
  /\ job = <<>>
  /\ tasks = <<>>
  /\ clones = <<>>
  /\ jpc = "idle"
  /\ last = NoTask
  /\ ProductsIdleTables
  /\ SettingsIdle

CallProductHelper ==
  /\ driver = "helper"
  /\ jpc = "idle"
  /\ StartJob(<<input>>)
  /\ UNCHANGED <<driver, input, productVars, settingsVars>>

CallVariationHelper ==
  /\ driver = "helper"
  /\ jpc = "idle"
  /\ \E answers \in [1..MaxImages -> PubAnswers], copy \in {"products", "variations"} :
       clones' = <<IF copy = "products"
                   THEN variationWithAccessibleImages(input, answers)
                   ELSE variationWithAccessibleImagesV(input, answers)>>
  /\ jpc' = "variation"
  /\ job' = <<input>>
  /\ UNCHANGED <<driver, input, tasks, last, productVars, settingsVars>>

NextHelper ==
  \/ CallProductHelper
  \/ CallVariationHelper
  \/ MapBegin
  \/ MapResume
  \/ MapCollect

SpecHelper == InitHelper /\ [][NextHelper]_vars


\* ======================================================== product router
Tokens == {"none", "invalid", "user", "admin"}

\* router.use: a token that verifies sets req.user (here: its role); no
\* header or a token that does not verify leaves the request without user
OptionalAuth(token) == IF token \in {"user", "admin"} THEN token ELSE "none"

\* req.user && req.user.role === 'admin'
IsAdmin(u) == u = "admin"

\* adminRequired of ../middleware/auth: lets a request through only with a
\* valid admin token
AdminRequired(token) == token = "admin"

AdminRoutes == {"POST /", "PUT /:id", "DELETE /:id"}
PublicRoutes == {"GET /", "GET /:id"}

Response(status, body) ==
  [status |-> status, body |-> body, products |-> <<>>,
   warning |-> FALSE, variations |-> <<>>]

FreeIds == {id \in ProductIds : products[id] = NoRow}

ImageCount(row) == IF row.images.arr THEN Len(row.images.items) ELSE 0

\* the handler's first position
FirstStep(route, files) ==
  CASE route = "POST /" -> "post.insert"
    [] route = "PUT /:id" -> IF files > 0 THEN "put.upload" ELSE "put.update"
    [] route = "DELETE /:id" -> "delete"
    [] route = "GET /" -> "list.query"
    [] OTHER -> "one.query"

\* a request arrives: the optional-auth middleware, then adminRequired and
\* multer on the admin routes
Receive ==
  /\ driver = "products"
  /\ hpc = "idle"
  /\ resp = NoResp
  /\ \E route \in AdminRoutes \cup PublicRoutes, token \in Tokens,
        id \in ProductIds, files \in 0..MaxFiles :
       /\ route = "POST /" => FreeIds # {} /\ id = 1
       /\ route = "GET /" => id = 1
       /\ route \in PublicRoutes \cup {"DELETE /:id"} => files = 0
       /\ route = "PUT /:id" => ImageCount(products[id]) + files <= MaxRowImages
       /\ req' = [route |-> route, token |-> token, id |-> id, files |-> files,
                  body |-> NoBody, query |-> NoQuery]
       /\ user' = OptionalAuth(token)
       /\ IF route \in AdminRoutes /\ ~AdminRequired(token)
          THEN /\ hpc' = "idle"
               /\ resp' = Response(IF token \in {"none", "invalid"} THEN 401 ELSE 403,
                                   "error")
          ELSE /\ hpc' = FirstStep(route, files)
               /\ resp' = NoResp
  /\ loc' = NoLoc
  /\ ops' = <<>>
  /\ ClearJob
  /\ UNCHANGED <<driver, input, products, variations, settingsVars>>

\* a faulty variant: the images are updated whether or not a key was stored
AfterPostUploadsAlwaysUpdate(prod, keys) ==
  /\ hpc' = "post.update"
  /\ UNCHANGED helperVars

\* the upload loop is over: update the images, or convert at once
AfterPostUploads(prod, keys) ==
  IF keys # <<>>
  THEN /\ hpc' = "post.update"
       /\ UNCHANGED helperVars
  ELSE /\ hpc' = "post.convert"
       /\ StartJob(<<prod>>)

\* POST /: supabase.from('products').insert([productInsert]).select().single()
PostInsert ==
  /\ hpc = "post.insert"
  /\ ops' = Append(ops, "db.insert")
  /\ \E ok \in BOOLEAN :
       IF ok
       THEN LET id == CHOOSE i \in FreeIds : \A j \in FreeIds : i <= j
                prod == Row(id, "true", NoArray)
            IN /\ products' = [products EXCEPT ![id] = prod]
               /\ loc' = [loc EXCEPT !.prod = prod]
               /\ resp' = resp
               /\ IF req.files > 0
                  THEN hpc' = "post.upload" /\ UNCHANGED helperVars
                  ELSE AfterPostUploads(prod, <<>>)
       ELSE /\ resp' = Response(400, "error")
            /\ hpc' = "idle"
            /\ UNCHANGED <<products, loc, helperVars>>
  /\ UNCHANGED <<driver, input, variations, req, user, settingsVars>>

\* what supabase.storage.upload answers: stored, an error the handler
\* tolerates (403, 500, row-level security, policy), any other error
UploadAnswers == {"stored", "tolerated", "error"}

\* POST /: one turn of the upload loop
PostUpload ==
  /\ hpc = "post.upload"
  /\ ops' = Append(ops, "storage.upload")
  /\ \E a \in UploadAnswers :
       CASE a = "stored" ->
              LET keys == Append(loc.imageKeys, Key(loc.i + 1))
              IN /\ loc' = [loc EXCEPT !.imageKeys = keys, !.i = @ + 1]
                 /\ resp' = resp
                 /\ IF loc.i + 1 < req.files
                    THEN hpc' = "post.upload" /\ UNCHANGED helperVars
                    ELSE AfterPostUploads(loc.prod, keys)
         [] a = "tolerated" ->
              /\ loc' = loc
              /\ resp' = resp
              /\ AfterPostUploads(loc.prod, loc.imageKeys)
         [] OTHER ->
              /\ resp' = Response(500, "error")
              /\ hpc' = "idle"
              /\ UNCHANGED <<loc, helperVars>>
  /\ UNCHANGED <<driver, input, products, variations, req, user, settingsVars>>

\* POST /: update({ images: imageKeys }).eq('id', prod.id).select().single()
PostUpdate ==
  /\ hpc = "post.update"
  /\ ops' = Append(ops, "db.update")
  /\ \E ok \in BOOLEAN :
       LET prod == IF ok THEN [loc.prod EXCEPT !.images = Arr(loc.imageKeys)]
                   ELSE loc.prod
       IN /\ products' = IF ok THEN [products EXCEPT ![prod.id] = prod] ELSE products
          /\ loc' = [loc EXCEPT !.prod = prod]
          /\ StartJob(<<prod>>)
  /\ hpc' = "post.convert"
  /\ UNCHANGED <<driver, input, variations, req, user, resp, settingsVars>>

\* a faulty variant: the stored row is sent instead of the converted one
ProductResponseRaw(converted, warning) ==
  [status |-> 200, body |-> "product",
   products |-> [p \in 1..Len(converted) |->
                   [converted[p] EXCEPT !.images = converted[p].src.images.items]],
   warning |-> warning, variations |-> <<>>]

\* res.json({ product }), res.json({ product, warning })
ProductResponse(converted, warning) ==
  [status |-> 200, body |-> "product", products |-> converted,
   warning |-> warning, variations |-> <<>>]

\* POST /: the product is converted: answer. (The inner catch, which sends
\* the stored row, is entered only if productWithAccessibleImages throws;
\* makeAccessibleUrl catches the exceptions of every storage call, so it
\* does not.)
PostRespond ==
  /\ hpc = "post.convert"
  /\ jpc = "collected"
  /\ resp' = ProductResponse(clones, req.files > 0 /\ ImageCount(loc.prod) = 0)
  /\ hpc' = "idle"
  /\ ClearJob
  /\ UNCHANGED <<driver, input, products, variations, req, user, loc, ops, settingsVars>>

\* PUT /:id: one turn of the upload loop
PutUpload ==
  /\ hpc = "put.upload"
  /\ ops' = Append(ops, "storage.upload")
  /\ \E a \in UploadAnswers :
       LET keys == IF a = "stored" THEN Append(loc.imageKeys, Key(loc.i + 1))
                   ELSE loc.imageKeys
       IN CASE a = "stored" /\ loc.i + 1 < req.files ->
                 /\ loc' = [loc EXCEPT !.imageKeys = keys, !.i = @ + 1]
                 /\ hpc' = "put.upload"
                 /\ resp' = resp
            [] a = "error" ->
                 /\ resp' = Response(500, "error")
                 /\ hpc' = "idle"
                 /\ loc' = loc
            [] OTHER ->
                 /\ loc' = [loc EXCEPT !.imageKeys = keys,
                                       !.i = IF a = "stored" THEN @ + 1 ELSE @]
                 /\ hpc' = IF keys # <<>> THEN "put.select" ELSE "put.update"
                 /\ resp' = resp
  /\ UNCHANGED <<driver, input, products, variations, req, user, helperVars, settingsVars>>

\* PUT /:id: select('images').eq('id', id).single(); its error is ignored
PutSelect ==
  /\ hpc = "put.select"
  /\ ops' = Append(ops, "db.select")
  /\ \E ok \in BOOLEAN :
       LET row == products[req.id]
           existing == IF ok /\ row # NoRow /\ row.images.arr
                       THEN row.images.items ELSE <<>>
       IN loc' = [loc EXCEPT !.changes = Arr(existing \o loc.imageKeys)]
  /\ hpc' = "put.update"
  /\ UNCHANGED <<driver, input, products, variations, req, user, resp, helperVars, settingsVars>>

\* PUT /:id: update(changes).eq('id', id).select().single()
PutUpdate ==
  /\ hpc = "put.update"
  /\ ops' = Append(ops, "db.update")
  /\ \E ok \in BOOLEAN :
       IF ok /\ products[req.id] # NoRow
       THEN LET data == IF loc.changes.arr
                        THEN [products[req.id] EXCEPT !.images = loc.changes]
                        ELSE products[req.id]
            IN /\ products' = [products EXCEPT ![req.id] = data]
               /\ hpc' = "put.convert"
               /\ resp' = resp
               /\ StartJob(<<data>>)
       ELSE /\ resp' = Response(400, "error")
            /\ hpc' = "idle"
            /\ UNCHANGED <<products, helperVars>>
  /\ UNCHANGED <<driver, input, variations, req, user, loc, settingsVars>>

\* PUT /:id: the product is converted: answer
PutRespond ==
  /\ hpc = "put.convert"
  /\ jpc = "collected"
  /\ resp' = ProductResponse(clones, req.files > 0 /\ ~loc.changes.arr)
  /\ hpc' = "idle"
  /\ ClearJob
  /\ UNCHANGED <<driver, input, products, variations, req, user, loc, ops, settingsVars>>

\* DELETE /:id
DeleteProduct ==
  /\ hpc = "delete"
  /\ ops' = Append(ops, "db.delete")
  /\ \E ok \in BOOLEAN :
       IF ok
       THEN /\ products' = [products EXCEPT ![req.id] = NoRow]
            /\ resp' = Response(200, "ok")
       ELSE /\ products' = products
            /\ resp' = Response(400, "error")
  /\ hpc' = "idle"
  /\ UNCHANGED <<driver, input, variations, req, user, loc, helperVars, settingsVars>>

\* a faulty variant: the is_active predicate is not added
VisibleAll(u, row) == row # NoRow

\* the rows a select returns: all rows for an admin, the rows with
\* is_active = true otherwise
Visible(u, row) == row # NoRow /\ (IsAdmin(u) \/ row.is_active = "true")

\* rows in the order of their ids, ascending or descending
RECURSIVE RowsInOrder(_, _)
RowsInOrder(ids, asc) ==
  IF ids = {} THEN <<>>
  ELSE LET id == IF asc THEN CHOOSE i \in ids : \A j \in ids : i <= j
                  ELSE CHOOSE i \in ids : \A j \in ids : i >= j
       IN <<products[id]>> \o RowsInOrder(ids \ {id}, asc)

\* s.trim() !== '' for a part of a parameter
NotBlank(part) == part \notin {"", " "}

\* param.split(',').filter(x => x.trim() !== ''), for a parameter given
\* as its parts; an absent or empty parameter gives nothing
SplitFilter(parts) == SelectSeq(parts, NotBlank)

\* categoryTypeMap[category], where it is an array
CategoryTypeMap(category) ==
  CASE category = "roupas" ->
         {"camisa", "moleton", "vestido", "calca", "calca-normal", "calca-jogador",
          "bermuda-jeans", "bermuda-jogador", "bermuda-tectel", "bermuda-elastano",
          "blusa-times", "conjunto", "kit", "short", "camiseta"}
    [] category = "calcados" -> {"sapato"}
    [] category = "acessorios" -> {"bone", "acessorio"}
    [] OTHER -> {}

\* categoryTypeMap[category] is truthy and not an array: a name every
\* object inherits; spreading it into allTypes.push throws
InheritedName(category) == category \in {"constructor", "toString"}

\* the handler throws while it builds the query
QueryThrows(query) ==
  \E i \in 1..Len(query.categories) :
    NotBlank(query.categories[i]) /\ InheritedName(query.categories[i])

\* allTypes: the types of the categories the map knows
AllTypes(categoriesArray) ==
  UNION {CategoryTypeMap(categoriesArray[i]) : i \in 1..Len(categoriesArray)}

\* a predicate clause of the query: in(col, set), gte/gt/lte(col, num)
Clause(op, col, set, num) == [op |-> op, col |-> col, set |-> set, num |-> num]

\* the clause of the types parameter
TypesClauses(types) ==
  LET typesArray == SplitFilter(types)
  IN IF Len(typesArray) > 0
     THEN <<Clause("in", "type", {typesArray[i] : i \in 1..Len(typesArray)}, 0)>>
     ELSE <<>>

\* the clause of the categories parameter
CategoriesClauses(categories) ==
  LET allTypes == AllTypes(SplitFilter(categories))
  IN IF allTypes # {} THEN <<Clause("in", "type", allTypes, 0)>> ELSE <<>>

\* a faulty variant: 50 belongs to '50-100' as well
PriceClausesInclusiveLower(priceRange) ==
  CASE priceRange = "0-50" -> <<Clause("gte", "price", {}, 0), Clause("lte", "price", {}, 5000)>>
    [] priceRange = "50-100" -> <<Clause("gte", "price", {}, 5000), Clause("lte", "price", {}, 10000)>>
    [] priceRange = "100-200" -> <<Clause("gt", "price", {}, 10000), Clause("lte", "price", {}, 20000)>>
    [] priceRange = "200+" -> <<Clause("gt", "price", {}, 20000)>>
    [] OTHER -> <<>>

\* the clauses of the priceRange parameter (prices in centavos)
PriceClauses(priceRange) ==
  CASE priceRange = "0-50" -> <<Clause("gte", "price", {}, 0), Clause("lte", "price", {}, 5000)>>
    [] priceRange = "50-100" -> <<Clause("gt", "price", {}, 5000), Clause("lte", "price", {}, 10000)>>
    [] priceRange = "100-200" -> <<Clause("gt", "price", {}, 10000), Clause("lte", "price", {}, 20000)>>
    [] priceRange = "200+" -> <<Clause("gt", "price", {}, 20000)>>
    [] OTHER -> <<>>

\* the clauses in the order the handler adds them
Clauses(query) ==
  TypesClauses(query.types) \o CategoriesClauses(query.categories)
    \o PriceClauses(query.priceRange)

\* the database evaluates a clause on a row
Holds(c, row) ==
  CASE c.op = "in" -> row.type \in c.set
    [] c.op = "gte" -> row.price >= c.num
    [] c.op = "gt" -> row.price > c.num
    [] OTHER -> row.price <= c.num

\* the rows the query selects: visible, and every clause holds
Matching(u, query) ==
  {id \in ProductIds :
     /\ Visible(u, products[id])
     /\ \A i \in 1..Len(Clauses(query)) : Holds(Clauses(query)[i], products[id])}

\* parameters of the listing requests
TypesParams == {<<>>, <<"sapato">>, <<"camisa", "bone">>, <<"", " ">>}
CategoriesParams ==
  {<<>>, <<"roupas">>, <<"calcados", "acessorios">>, <<"desconhecida">>,
   <<"roupas", "desconhecida">>, <<"", " ">>, <<"constructor">>}
PriceRanges == {"", "all", "0-50", "50-100", "100-200", "200+", "0-100"}

\* GET / with a query string arrives: the optional-auth middleware, then
\* the handler builds the query up to its await
ListReceive ==
  /\ driver = "listing"
  /\ hpc = "idle"
  /\ resp = NoResp
  /\ \E types \in TypesParams, categories \in CategoriesParams,
        priceRange \in PriceRanges :
       LET query == [types |-> types, categories |-> categories,
                     priceRange |-> priceRange]
       IN /\ priceRange # "" => types = <<>> /\ categories = <<>>
          /\ req' = [NoReq EXCEPT !.route = "GET /", !.id = 1, !.query = query]
          /\ IF QueryThrows(query)
             THEN hpc' = "idle" /\ resp' = Response(500, "error")
             ELSE hpc' = "list.query" /\ resp' = NoResp
  /\ user' = OptionalAuth("none")
  /\ loc' = NoLoc
  /\ ops' = <<>>
  /\ ClearJob
  /\ UNCHANGED <<driver, input, products, variations, settingsVars>>

\* GET /: the query. The clauses of types, categories and priceRange are
\* evaluated; the other filters of the query string (search, brand, brands,
\* sizes, colors, discountRange), which the listing requests do not carry,
\* keep any part of the rows; the sort puts them in one order or the other.
ListQuery ==
  /\ hpc = "list.query"
  /\ ops' = Append(ops, "db.select")
  /\ \E ok \in BOOLEAN :
       IF ok
       THEN \E ids \in IF driver = "listing" THEN {Matching(user, req.query)}
                       ELSE SUBSET Matching(user, req.query),
               asc \in BOOLEAN :
              /\ StartJob(RowsInOrder(ids, asc))
              /\ hpc' = "list.convert"
              /\ resp' = resp
       ELSE /\ resp' = Response(500, "error")
            /\ hpc' = "idle"
            /\ UNCHANGED helperVars
  /\ UNCHANGED <<driver, input, products, variations, req, user, loc, settingsVars>>

\* GET /: res.json({ products })
ListRespond ==
  /\ hpc = "list.convert"
  /\ jpc = "collected"
  /\ resp' = [ProductResponse(clones, FALSE) EXCEPT !.body = "products"]
  /\ hpc' = "idle"
  /\ ClearJob
  /\ UNCHANGED <<driver, input, products, variations, req, user, loc, ops, settingsVars>>

\* GET /:id: the query with .single(): no row is PGRST116, answered 404
OneQuery ==
  /\ hpc = "one.query"
  /\ ops' = Append(ops, "db.select")
  /\ \E ok \in BOOLEAN :
       IF ~ok
       THEN /\ resp' = Response(500, "error")
            /\ hpc' = "idle"
            /\ UNCHANGED helperVars
       ELSE IF Visible(user, products[req.id])
            THEN /\ StartJob(<<products[req.id]>>)
                 /\ hpc' = "one.convert"
                 /\ resp' = resp
            ELSE /\ resp' = Response(404, "Produto nao encontrado")
                 /\ hpc' = "idle"
                 /\ UNCHANGED helperVars
  /\ UNCHANGED <<driver, input, products, variations, req, user, loc, settingsVars>>

\* the active variations of a product, in table order
VariationsOf(pid) ==
  SelectSeq(variations, LAMBDA v : v.product_id = pid /\ v.is_active = "true")

\* GET /:id: includeVariations: the select on product_variations, each row
\* through variationWithAccessibleImages, then res.json({ product })
OneVariationsRespond ==
  /\ hpc = "one.convert"
  /\ jpc = "collected"
  /\ ops' = Append(ops, "db.select")
  /\ \E a \in {"rows", "error", "throw"},
        answers \in [1..MaxVariationImages -> PubAnswers] :
       LET rows == VariationsOf(clones[1].src.id)
       IN resp' = [ProductResponse(clones, FALSE) EXCEPT
                     !.variations =
                        IF a = "rows"
                        THEN [v \in 1..Len(rows) |->
                                variationWithAccessibleImages(rows[v], answers)]
                        ELSE <<>>]
  /\ hpc' = "idle"
  /\ ClearJob
  /\ UNCHANGED <<driver, input, products, variations, req, user, loc, settingsVars>>

\* the response has gone out: nothing of the request is left
Finish ==
  /\ driver \in {"products", "listing"}
  /\ hpc = "idle"
  /\ resp # NoResp
  /\ req' = NoReq
  /\ user' = "none"
  /\ loc' = NoLoc
  /\ resp' = NoResp
  /\ ops' = <<>>
  /\ UNCHANGED <<driver, input, helperVars, products, variations, hpc, settingsVars>>

InitProducts ==
  /\ driver = "products"
  /\ input = NoRow
  /\ job = <<>>
  /\ tasks = <<>>
  /\ clones = <<>>
  /\ jpc = "idle"
  /\ last = NoTask
  /\ products \in [ProductIds -> {NoRow} \cup UNION {StoredRows(id) : id \in ProductIds}]
  /\ \A id \in ProductIds : products[id] # NoRow => products[id].id = id
  /\ variations \in StoredVariations
  /\ req = NoReq
  /\ user = "none"
  /\ hpc = "idle"
  /\ loc = NoLoc
  /\ resp = NoResp
  /\ ops = <<>>
  /\ SettingsIdle

NextProducts ==
  \/ Receive
  \/ PostInsert
  \/ PostUpload
  \/ PostUpdate
  \/ PostRespond
  \/ PutUpload
  \/ PutSelect
  \/ PutUpdate
  \/ PutRespond
  \/ DeleteProduct
  \/ ListQuery
  \/ ListRespond
  \/ OneQuery
  \/ OneVariationsRespond
  \/ Finish
  \/ MapBegin
  \/ MapResume
  \/ MapCollect

SpecProducts == InitProducts /\ [][NextProducts]_vars

\* types and prices (in centavos) of the rows the listing is asked over
ProductTypes == {"camisa", "sapato", "bone", "perfume"}
Prices == {0, 2500, 5000, 5001, 10000, 10001, 20000, 20001}

ListingRows(id) ==
  {Product(id, "true", NoArray, t, p) : t \in ProductTypes, p \in Prices}

\* the product router answering GET / with a query string
InitListing ==
  /\ driver = "listing"
  /\ input = NoRow
  /\ job = <<>>
  /\ tasks = <<>>
  /\ clones = <<>>
  /\ jpc = "idle"
  /\ last = NoTask
  /\ products \in [ProductIds -> {NoRow} \cup UNION {ListingRows(id) : id \in ProductIds}]
  /\ \A id \in ProductIds : products[id] # NoRow => products[id].id = id
  /\ variations = <<>>
  /\ req = NoReq
  /\ user = "none"
  /\ hpc = "idle"
  /\ loc = NoLoc
  /\ resp = NoResp
  /\ ops = <<>>
  /\ SettingsIdle

NextListing ==
  \/ ListReceive
  \/ ListQuery
  \/ MapCollect
  \/ ListRespond
  \/ Finish

SpecListing == InitListing /\ [][NextListing]_vars


\* ======================================================= settings router
DefaultKeys ==
  {"announcement_text", "hero_banner_title", "hero_banner_subtitle",
   "site_background_type", "site_background_value", "site_background_video_url"}

BackgroundKeys ==
  {"site_background_type", "site_background_value", "site_background_video_url"}

\* keys of site_settings rows: the default ones and one more
SettingKeys == DefaultKeys \cup {"initialize", "site_background_video"}

NoSetting == [value |-> "", type |-> "none"]
Setting(value, type) == [value |-> value, type |-> type]

\* defaultSettings of the initialize handler
DefaultSetting(k) ==
  CASE k = "announcement_text" -> Setting("Frete gratis em compras acima de R$ 199", "text")
    [] k = "hero_banner_title" -> Setting("Nova Colecao", "text")
    [] k = "hero_banner_subtitle" -> Setting("Ate 70% OFF + 20% no primeiro pedido", "text")
    [] k = "site_background_type" -> Setting("color", "text")
    [] k = "site_background_value" -> Setting("#f5f5f5", "text")
    [] k = "site_background_video_url" -> Setting("", "text")
    [] OTHER -> NoSetting

EmptyTable == [k \in SettingKeys |-> NoSetting]

\* contents of site_settings the server may find
StoredTables ==
  {EmptyTable,
   [k \in SettingKeys |-> DefaultSetting(k)],
   [EmptyTable EXCEPT !["site_background_type"] = Setting("image", "text"),
                      !["announcement_text"] = Setting("Frete gratis", "text")]}

\* a database error: its code and the words of its message (no words: no
\* message)
Err(code, msg) == [code |-> code, msg |-> msg]
NoErr == Err("none", <<>>)

\* errors the database may answer a select with: a missing table (in
\* English and in Portuguese), a missing column, a refused permission, the
\* error of .single(), a lost connection, an error without message
DbErrors ==
  {Err("42P01", <<"relation", "site_settings", "does not exist">>),
   Err("42P01", <<"relacao", "site_settings", "nao existe">>),
   Err("42P01", <<>>),
   Err("42703", <<"column", "type", "does not exist">>),
   Err("42703", <<"coluna", "type", "nao existe">>),
   Err("42501", <<"permission denied for", "relation", "site_settings">>),
   Err("PGRST116", <<"JSON object requested, multiple (or no) rows returned">>),
   Err("08006", <<"connection timed out">>),
   Err("XX000", <<>>)}

\* a failure that has nothing to do with the rows: the connection, a timeout
Unavailable == Err("08006", <<"connection timed out">>)

\* error.message?.includes(words)
Includes(msg, words) == \E i \in 1..Len(msg) : msg[i] = words

\* a faulty variant: only the code 42P01 is taken for a missing table
MissingTableError42P01Only(e) == e.code = "42P01"

\* GET /: the errors answered with an empty settings object
MissingTableError(e) ==
  \/ e.code = "42P01"
  \/ e.code = "PGRST116"
  \/ Includes(e.msg, "does not exist")
  \/ Includes(e.msg, "relation")
  \/ Includes(e.msg, "nao existe")

\* GET /: the same test in the catch block
MissingTableThrown(e) ==
  \/ Includes(e.msg, "does not exist")
  \/ Includes(e.msg, "relation")
  \/ Includes(e.msg, "nao existe")
  \/ e.code = "42P01"

\* the requests of the model: method, path (its segments), token, body value
Paths == {<<>>} \cup {<<k>> : k \in {"site_background_type", "initialize"}}
PutValues == {"undefined", "image", "video"}

\* the paths of the upload requests
UploadPaths == {<<k, "upload">> : k \in {"site_background_type", "site_background_video"}}

\* a file of a multipart request: the form field it comes in, the extension
\* of its name, its MIME type
NoFile == [field |-> "none", ext |-> "", mime |-> ""]
File(field, ext, mime) == [field |-> field, ext |-> ext, mime |-> mime]

\* the files of the model: none, an image in field 'image', a video in
\* field 'video', a video in field 'image'
Files ==
  {NoFile, File("image", "png", "image/png"), File("video", "mp4", "video/mp4"),
   File("image", "mp4", "video/mp4")}

\* fileFilter of upload: /jpeg|jpg|png|gif|webp/ on the extension and on
\* the MIME type
ImageFileFilter(file) ==
  /\ file.ext \in {"jpeg", "jpg", "png", "gif", "webp"}
  /\ file.mime \in {"image/jpeg", "image/jpg", "image/png", "image/gif", "image/webp"}

\* fileFilter of videoUpload and the handler's own test:
\* /mp4|webm|ogg|avi|mov|wmv/ on the extension and on the MIME type (the
\* test looks for the word inside the string: video/quicktime has none)
VideoFileFilter(file) ==
  /\ file.ext \in {"mp4", "webm", "ogg", "avi", "mov", "wmv"}
  /\ file.mime \in {"video/mp4", "video/webm", "video/ogg", "video/avi",
                    "video/x-ms-wmv"}

\* multer's single(field): a file in another field is refused
\* (LIMIT_UNEXPECTED_FILE) before the fileFilter sees it, a file the
\* fileFilter refuses is an error too; both go to next(err). Without a file
\* the request passes with req.file undefined.
Single(field, accepted, file) ==
  IF file = NoFile THEN "pass"
  ELSE IF file.field # field THEN "Unexpected field"
  ELSE IF ~accepted THEN "refused"
  ELSE "pass"

\* the routes in the order the router registers them; ":key" is a parameter
Route(method, pattern, handler, admin) ==
  [method |-> method, pattern |-> pattern, handler |-> handler, admin |-> admin]

RouteTable ==
  << Route("GET", <<>>, "getAll", FALSE),
     Route("GET", <<":key">>, "getKey", FALSE),
     Route("PUT", <<":key">>, "putKey", TRUE),
     Route("POST", <<":key", "upload">>, "uploadImage", TRUE),
     Route("POST", <<"site_background_video", "upload">>, "uploadVideo", TRUE),
     Route("GET", <<"initialize">>, "initialize", TRUE) >>

\* Express: a route matches when the method is the same and every segment
\* is the same or the pattern's segment is a parameter
Matches(route, method, path) ==
  /\ route.method = method
  /\ Len(route.pattern) = Len(path)
  /\ \A i \in 1..Len(path) : route.pattern[i] = path[i] \/ route.pattern[i] = ":key"

\* the first route that matches, 0 if none does
Dispatch(method, path) ==
  LET hits == {i \in 1..Len(RouteTable) : Matches(RouteTable[i], method, path)}
  IN IF hits = {} THEN 0 ELSE CHOOSE i \in hits : \A j \in hits : i <= j

SResponse(status, body) ==
  [status |-> status, body |-> body, settings |-> EmptyTable,
   setting |-> NoSetting, message |-> ""]

NoSResp == SResponse(0, "none")

IdleSlot ==
  [method |-> "none", path |-> <<>>, token |-> "none", value |-> "undefined",
   file |-> NoFile, pc |-> "idle", handler |-> "none", err |-> NoErr, resp |-> NoSResp,
   ops |-> <<>>]

Slots == 1..Len(sreq)

\* a request arrives: router.use runs its select on site_settings. (The
\* uploads are followed one request at a time; the requests that overlap
\* are the GETs and the PUTs.)
SReceive(r) ==
  /\ driver = "settings"
  /\ sreq[r].pc = "idle"
  /\ \E method \in {"GET", "PUT", "POST"}, path \in Paths \cup UploadPaths,
        token \in {"none", "admin"}, value \in PutValues, file \in Files :
       /\ method = "GET" => value = "undefined"
       /\ method = "GET" /\ path # <<"initialize">> => token = "none"
       /\ method = "PUT" => path # <<>>
       /\ method = "POST" <=> path \in UploadPaths
       /\ method = "POST" => Len(sreq) = 1
       /\ method = "POST" => value = "undefined"
       /\ method # "POST" \/ token = "none" => file = NoFile
       /\ sreq' = [sreq EXCEPT ![r] =
                     [IdleSlot EXCEPT !.method = method, !.path = path,
                                      !.token = token, !.value = value,
                                      !.file = file, !.pc = "probe"]]
  /\ UNCHANGED <<driver, input, helperVars, productVars, settings>>

\* GET /initialize: the keys the table lacks are inserted in one statement;
\* the select's error is ignored, a failed insert is answered 500
InitializeHandler(table, selectOk, insertOk) ==
  LET existingKeys == IF selectOk THEN {k \in SettingKeys : table[k] # NoSetting}
                      ELSE {}
      toInsert == DefaultKeys \ existingKeys
      clash == \E k \in toInsert : table[k] # NoSetting
  IN IF toInsert # {} /\ (clash \/ ~insertOk)
     THEN [table |-> table,
           resp |-> SResponse(500, "Erro ao inicializar configuracoes")]
     ELSE [table |-> [k \in SettingKeys |->
                        IF k \in toInsert THEN DefaultSetting(k) ELSE table[k]],
           resp |-> [SResponse(200, "message") EXCEPT
                       !.message = "Configuracoes inicializadas com sucesso"]]

\* what getPublicUrl answers for the uploaded file
UploadedUrl == "publicUrl"

\* POST /site_background_video/upload: the file is tested again, uploaded,
\* and site_background_video_url is updated, or inserted when no row
\* matched (PGRST116)
VideoHandler(table, file, uploadOk, updateOk, insertOk) ==
  LET k == "site_background_video_url"
      row == Setting(UploadedUrl, "video")
      sent == [SResponse(200, "setting") EXCEPT
                 !.setting = row, !.message = "Video enviado com sucesso"]
  IN IF file = NoFile
     THEN [table |-> table, resp |-> SResponse(400, "Nenhum video enviado")]
     ELSE IF ~VideoFileFilter(file)
     THEN [table |-> table, resp |-> SResponse(400, "Apenas videos sao permitidos")]
     ELSE IF ~uploadOk
     THEN [table |-> table, resp |-> SResponse(500, "Erro ao fazer upload do video")]
     ELSE IF ~updateOk
     THEN [table |-> table, resp |-> SResponse(500, "error")]
     ELSE IF table[k] # NoSetting
     THEN [table |-> [table EXCEPT ![k] = row], resp |-> sent]
     ELSE IF ~insertOk
     THEN [table |-> table, resp |-> SResponse(500, "error")]
     ELSE [table |-> [table EXCEPT ![k] = row], resp |-> sent]

\* the middleware's select settled (whatever it answered, next() is called):
\* the router hands the request to the first matching route, whose
\* adminRequired and handler run up to the first await
SRoute(r) ==
  /\ driver = "settings"
  /\ sreq[r].pc = "probe"
  /\ LET q == sreq[r]
         idx == Dispatch(q.method, q.path)
         handler == IF idx = 0 THEN "none" ELSE RouteTable[idx].handler
         probed == [q EXCEPT !.ops = Append(@, "middleware.select"), !.handler = handler]
         refusal == Single("image", ImageFileFilter(q.file), q.file)
     IN \E selectOk \in BOOLEAN, insertOk \in BOOLEAN :
        CASE idx = 0 ->
               /\ sreq' = [sreq EXCEPT ![r] =
                             [probed EXCEPT !.pc = "answered",
                                            !.resp = SResponse(404, "error")]]
               /\ settings' = settings
          [] idx # 0 /\ RouteTable[idx].admin /\ ~AdminRequired(q.token) ->
               /\ sreq' = [sreq EXCEPT ![r] =
                             [probed EXCEPT !.pc = "answered",
                                            !.resp = SResponse(401, "error")]]
               /\ settings' = settings
          [] idx # 0 /\ handler = "putKey" /\ q.value = "undefined"
               /\ AdminRequired(q.token) ->
               /\ sreq' = [sreq EXCEPT ![r] =
                             [probed EXCEPT !.pc = "answered",
                                            !.resp = SResponse(400, "Valor e obrigatorio")]]
               /\ settings' = settings
          [] idx # 0 /\ handler = "uploadImage" /\ AdminRequired(q.token)
               /\ refusal # "pass" ->
               \* upload.single('image') calls next(err): the routes left
               \* are skipped and the error handler answers
               /\ sreq' = [sreq EXCEPT ![r] =
                             [probed EXCEPT !.pc = "answered",
                                            !.err = Err("multer", <<refusal>>),
                                            !.resp = SResponse(500, refusal)]]
               /\ settings' = settings
          [] idx # 0 /\ handler = "uploadImage" /\ AdminRequired(q.token)
               /\ q.file = NoFile ->
               /\ sreq' = [sreq EXCEPT ![r] =
                             [probed EXCEPT !.pc = "answered",
                                            !.resp = SResponse(400, "Nenhuma imagem enviada")]]
               /\ settings' = settings
          [] idx # 0 /\ handler = "uploadVideo" /\ AdminRequired(q.token)
               /\ Single("video", VideoFileFilter(q.file), q.file) = "pass" ->
               LET done == VideoHandler(settings, q.file, selectOk, selectOk, insertOk)
               IN /\ sreq' = [sreq EXCEPT ![r] =
                                [probed EXCEPT !.pc = "answered", !.resp = done.resp]]
                  /\ settings' = done.table
          [] idx # 0 /\ handler = "initialize" /\ AdminRequired(q.token) ->
               LET done == InitializeHandler(settings, selectOk, insertOk)
               IN /\ sreq' = [sreq EXCEPT ![r] =
                                [probed EXCEPT !.pc = "answered", !.resp = done.resp,
                                               !.ops = @ \o <<"db.select", "db.insert">>]]
                  /\ settings' = done.table
          [] OTHER ->
               /\ sreq' = [sreq EXCEPT ![r] = [probed EXCEPT !.pc = handler]]
               /\ settings' = settings
  /\ UNCHANGED <<driver, input, helperVars, productVars>>

\* a faulty variant: the rows by key, without the background defaults
SettingsObjectNoDefaults(table) == table

\* settingsObj of GET /: the rows by key, then the background defaults
SettingsObject(table) ==
  [k \in SettingKeys |->
     IF table[k] # NoSetting THEN table[k]
     ELSE IF k \in BackgroundKeys THEN DefaultSetting(k)
     ELSE NoSetting]

\* GET /: select('key, value, type').order('key') settled. how: the rows,
\* an error in the answer, or an exception
GetAll(r) ==
  /\ driver = "settings"
  /\ sreq[r].pc = "getAll"
  /\ \E how \in {"rows", "error", "throw"}, e \in DbErrors :
       LET q == [sreq[r] EXCEPT !.ops = Append(@, "db.select"), !.pc = "answered"]
       IN sreq' = [sreq EXCEPT ![r] =
            CASE how = "rows" ->
                   [q EXCEPT !.resp = [SResponse(200, "settings") EXCEPT
                                         !.settings = SettingsObject(settings)]]
              [] how = "error" ->
                   [q EXCEPT !.err = e,
                             !.resp = IF MissingTableError(e)
                                      THEN SResponse(200, "settings")
                                      ELSE SResponse(500, "error")]
              [] OTHER ->
                   [q EXCEPT !.err = e,
                             !.handler = "getAll.catch",
                             !.resp = IF MissingTableThrown(e)
                                      THEN SResponse(200, "settings")
                                      ELSE SResponse(500, "error")]]
  /\ UNCHANGED <<driver, input, helperVars, productVars, settings>>

\* GET /:key: select(...).eq('key', key).single() settled
GetKey(r) ==
  /\ driver = "settings"
  /\ sreq[r].pc = "getKey"
  /\ \E ok \in BOOLEAN :
       LET q == [sreq[r] EXCEPT !.ops = Append(@, "db.select"), !.pc = "answered"]
           row == settings[q.path[1]]
       IN sreq' = [sreq EXCEPT ![r] =
            IF ok /\ row # NoSetting
            THEN [q EXCEPT !.resp = [SResponse(200, "setting") EXCEPT !.setting = row]]
            ELSE [q EXCEPT !.resp = SResponse(404, "Configuracao nao encontrada")]]
  /\ UNCHANGED <<driver, input, helperVars, productVars, settings>>

\* PUT /:key: update({ value, ... }).eq('key', key).select().single()
\* settled: the row is updated, or no row matched (PGRST116), or the
\* database failed
PutKeyUpdate(r) ==
  /\ driver = "settings"
  /\ sreq[r].pc = "putKey"
  /\ \E ok \in BOOLEAN :
       LET q == [sreq[r] EXCEPT !.ops = Append(@, "db.update")]
           k == q.path[1]
       IN IF ~ok
          THEN /\ sreq' = [sreq EXCEPT ![r] =
                             [q EXCEPT !.pc = "answered", !.err = Unavailable,
                                       !.resp = SResponse(500, "error")]]
               /\ settings' = settings
          ELSE IF settings[k] # NoSetting
          THEN LET row == [settings[k] EXCEPT !.value = q.value]
               IN /\ settings' = [settings EXCEPT ![k] = row]
                  /\ sreq' = [sreq EXCEPT ![r] =
                       [q EXCEPT !.pc = "answered",
                                 !.resp = [SResponse(200, "setting") EXCEPT
                                             !.setting = row,
                                             !.message = "Configuracao atualizada com sucesso"]]]
          ELSE /\ sreq' = [sreq EXCEPT ![r] =
                             [q EXCEPT !.pc = "putKey.insert",
                                       !.err = Err("PGRST116", <<>>)]]
               /\ settings' = settings
  /\ UNCHANGED <<driver, input, helperVars, productVars>>

\* PUT /:key: insert([{ key, value, type: 'text', ... }]).select().single()
\* settled; the key of a row is unique
PutKeyInsert(r) ==
  /\ driver = "settings"
  /\ sreq[r].pc = "putKey.insert"
  /\ \E ok \in BOOLEAN :
       LET q == [sreq[r] EXCEPT !.ops = Append(@, "db.insert"), !.pc = "answered"]
           k == q.path[1]
       IN IF ~ok
          THEN /\ sreq' = [sreq EXCEPT ![r] =
                             [q EXCEPT !.err = Unavailable,
                                       !.resp = SResponse(500, "error")]]
               /\ settings' = settings
          ELSE IF settings[k] # NoSetting
          THEN /\ sreq' = [sreq EXCEPT ![r] =
                             [q EXCEPT !.err = Err("23505", <<"duplicate key">>),
                                       !.resp = SResponse(500, "error")]]
               /\ settings' = settings
          ELSE LET row == Setting(q.value, "text")
               IN /\ settings' = [settings EXCEPT ![k] = row]
                  /\ sreq' = [sreq EXCEPT ![r] =
                       [q EXCEPT !.resp = [SResponse(200, "setting") EXCEPT
                                             !.setting = row,
                                             !.message = "Configuracao criada com sucesso"]]]
  /\ UNCHANGED <<driver, input, helperVars, productVars>>

\* POST /:key/upload: select('key, type').eq('key', key).single() settled;
\* its error is not looked at, a missing row is answered 404
UploadImageSelect(r) ==
  /\ driver = "settings"
  /\ sreq[r].pc = "uploadImage"
  /\ \E ok \in BOOLEAN :
       LET q == [sreq[r] EXCEPT !.ops = Append(@, "db.select")]
       IN sreq' = [sreq EXCEPT ![r] =
            IF ok /\ settings[q.path[1]] # NoSetting
            THEN [q EXCEPT !.pc = "uploadImage.store"]
            ELSE [q EXCEPT !.pc = "answered",
                           !.resp = SResponse(404, "Configuracao nao encontrada")]]
  /\ UNCHANGED <<driver, input, helperVars, productVars, settings>>

\* POST /:key/upload: storage.upload settled: stored, refused by the
\* policies (403, row-level security), or another error
UploadImageStore(r) ==
  /\ driver = "settings"
  /\ sreq[r].pc = "uploadImage.store"
  /\ \E a \in {"stored", "policy", "error"} :
       LET q == [sreq[r] EXCEPT !.ops = Append(@, "storage.upload")]
       IN sreq' = [sreq EXCEPT ![r] =
            CASE a = "stored" -> [q EXCEPT !.pc = "uploadImage.update"]
              [] a = "policy" ->
                   [q EXCEPT !.pc = "answered", !.resp = SResponse(403, "error")]
              [] OTHER ->
                   [q EXCEPT !.pc = "answered",
                             !.resp = SResponse(500, "Erro ao fazer upload da imagem")]]
  /\ UNCHANGED <<driver, input, helperVars, productVars, settings>>

\* POST /:key/upload: update({ value: publicUrl, type: 'image', ... })
\* .eq('key', key).select().single() settled
UploadImageUpdate(r) ==
  /\ driver = "settings"
  /\ sreq[r].pc = "uploadImage.update"
  /\ \E ok \in BOOLEAN :
       LET q == [sreq[r] EXCEPT !.ops = Append(@, "db.update"), !.pc = "answered"]
           k == q.path[1]
           row == Setting(UploadedUrl, "image")
       IN IF ok /\ settings[k] # NoSetting
          THEN /\ settings' = [settings EXCEPT ![k] = row]
               /\ sreq' = [sreq EXCEPT ![r] =
                    [q EXCEPT !.resp = [SResponse(200, "setting") EXCEPT
                                          !.setting = row,
                                          !.message = "Imagem enviada com sucesso"]]]
          ELSE /\ settings' = settings
               /\ sreq' = [sreq EXCEPT ![r] =
                    [q EXCEPT !.err = Unavailable, !.resp = SResponse(500, "error")]]
  /\ UNCHANGED <<driver, input, helperVars, productVars>>

\* the response has gone out: the slot is free again
SFinish(r) ==
  /\ driver = "settings"
  /\ sreq[r].pc = "answered"
  /\ sreq' = [sreq EXCEPT ![r] = IdleSlot]
  /\ UNCHANGED <<driver, input, helperVars, productVars, settings>>

SettingsStart(n) ==
  /\ driver = "settings"
  /\ input = NoRow
  /\ job = <<>>
  /\ tasks = <<>>
  /\ clones = <<>>
  /\ jpc = "idle"
  /\ last = NoTask
  /\ ProductsIdleTables
  /\ settings \in StoredTables
  /\ sreq = [r \in 1..n |-> IdleSlot]

\* the settings router serving one request at a time
InitSettings == SettingsStart(1)

\* the settings router serving requests that overlap
InitConcurrent == SettingsStart(MaxConcurrent)

\* the steps of the GET and PUT requests
NextConcurrent ==
  \/ \E r \in Slots : SReceive(r)
  \/ \E r \in Slots : SRoute(r)
  \/ \E r \in Slots : GetAll(r)
  \/ \E r \in Slots : GetKey(r)
  \/ \E r \in Slots : PutKeyUpdate(r)
  \/ \E r \in Slots : PutKeyInsert(r)
  \/ \E r \in Slots : SFinish(r)

NextSettings ==
  \/ NextConcurrent
  \/ \E r \in Slots : UploadImageSelect(r)
  \/ \E r \in Slots : UploadImageStore(r)
  \/ \E r \in Slots : UploadImageUpdate(r)

SpecSettings == InitSettings /\ [][NextSettings]_vars

SpecConcurrent == InitConcurrent /\ [][NextConcurrent]_vars

\* ===================================================== variations router
\* rows product_variations may come to hold
MaxVariations == 3

\* values of a field of the multipart body: absent, empty, or a text
ProductIdValues == {"undefined", "", "0", "1"}
NameValues == {"undefined", "", "Azul"}

\* !value, for a field of the body
Falsy(v) == v \in {"undefined", ""}

\* a faulty variant: only product_id is required
RequiredFieldsProductIdOnly(body) == ~Falsy(body.product_id)

\* !product_id || !name does not hold
RequiredFields(body) == ~Falsy(body.product_id) /\ ~Falsy(body.name)

\* the product_id column of the inserted row
ProductIdOf(v) == IF v = "1" THEN 1 ELSE 0

\* POST / of the variations router arrives: adminRequired, upload.array
\* (the files stay in memory), then the handler up to its first await
VReceive ==
  /\ driver = "variations"
  /\ hpc = "idle"
  /\ resp = NoResp
  /\ Len(variations) < MaxVariations
  /\ \E token \in Tokens, files \in 0..MaxFiles,
        pid \in ProductIdValues, name \in NameValues :
       LET body == [product_id |-> pid, name |-> name]
       IN /\ req' = [route |-> "POST /variations", token |-> token, id |-> 0,
                     files |-> files, body |-> body, query |-> NoQuery]
          /\ user' = OptionalAuth(token)
          /\ IF ~AdminRequired(token)
             THEN /\ hpc' = "idle"
                  /\ resp' = Response(IF token \in {"none", "invalid"} THEN 401 ELSE 403,
                                      "error")
             ELSE IF ~RequiredFields(body)
             THEN /\ hpc' = "idle"
                  /\ resp' = Response(400, "Campos obrigatorios: product_id e name")
             ELSE /\ hpc' = IF files > 0 THEN "var.upload" ELSE "var.insert"
                  /\ resp' = NoResp
  /\ loc' = NoLoc
  /\ ops' = <<>>
  /\ UNCHANGED <<driver, input, helperVars, products, variations, settingsVars>>

\* one turn of the upload loop: stored, an error the handler tolerates
\* (the loop is left), any other error
VUpload ==
  /\ driver = "variations"
  /\ hpc = "var.upload"
  /\ ops' = Append(ops, "storage.upload")
  /\ \E a \in UploadAnswers :
       CASE a = "stored" ->
              /\ loc' = [loc EXCEPT !.imageKeys = Append(@, Key(loc.i + 1)), !.i = @ + 1]
              /\ resp' = resp
              /\ hpc' = IF loc.i + 1 < req.files THEN "var.upload" ELSE "var.insert"
         [] a = "tolerated" ->
              /\ loc' = loc
              /\ resp' = resp
              /\ hpc' = "var.insert"
         [] OTHER ->
              /\ loc' = loc
              /\ resp' = Response(500, "error")
              /\ hpc' = "idle"
  /\ UNCHANGED <<driver, input, helperVars, products, variations, req, user, settingsVars>>

\* insert([variationInsert]).select().single() settled; the new row goes
\* through variationWithAccessibleImages and is sent
VInsert ==
  /\ driver = "variations"
  /\ hpc = "var.insert"
  /\ ops' = Append(ops, "db.insert")
  /\ \E ok \in BOOLEAN, answers \in [1..MaxFiles -> PubAnswers] :
       IF ok
       THEN LET row == Variation(Len(variations) + 1, ProductIdOf(req.body.product_id),
                                 "true", Arr(loc.imageKeys))
            IN /\ variations' = Append(variations, row)
               /\ resp' = [Response(200, "variation") EXCEPT
                             !.variations = <<variationWithAccessibleImagesV(row, answers)>>]
       ELSE /\ variations' = variations
            /\ resp' = Response(400, "error")
  /\ hpc' = "idle"
  /\ UNCHANGED <<driver, input, helperVars, products, req, user, loc, settingsVars>>

\* the response has gone out
VFinish ==
  /\ driver = "variations"
  /\ hpc = "idle"
  /\ resp # NoResp
  /\ req' = NoReq
  /\ user' = "none"
  /\ loc' = NoLoc
  /\ resp' = NoResp
  /\ ops' = <<>>
  /\ UNCHANGED <<driver, input, helperVars, products, variations, hpc, settingsVars>>

InitVariations ==
  /\ driver = "variations"
  /\ input = NoRow
  /\ job = <<>>
  /\ tasks = <<>>
  /\ clones = <<>>
  /\ jpc = "idle"
  /\ last = NoTask
  /\ products = [id \in ProductIds |-> NoRow]
  /\ variations \in StoredVariations
  /\ req = NoReq
  /\ user = "none"
  /\ hpc = "idle"
  /\ loc = NoLoc
  /\ resp = NoResp
  /\ ops = <<>>
  /\ SettingsIdle

NextVariations ==
  \/ VReceive
  \/ VUpload
  \/ VInsert
  \/ VFinish

SpecVariations == InitVariations /\ [][NextVariations]_vars

\* ============================================================ the server
Init == InitHelper \/ InitProducts \/ InitSettings \/ InitVariations \/ InitListing

Next == NextHelper \/ NextProducts \/ NextSettings \/ NextVariations \/ NextListing

Spec == Init /\ [][Next]_vars

\* ================================================================ claims
\* the invocations whose storage calls are on record: the one that ran the
\* latest step and the ones waiting for createSignedUrl
Invocations == {last} \cup {tasks[i] : i \in 1..Len(tasks)}

\* makeAccessibleUrl invocations that got past the key checks
Asked(t) == Truthy(t.key) /\ ~IsHttpUrl(t.key) /\ t.pc \in {"awaitSigned", "done"}

CallsOf(t, op) == SelectSeq(t.calls, LAMBDA c : c.op = op)

Supplied(c) == c.op = "getPublicUrl" /\ c.ans \in {"data.publicUrl", "publicURL"}

C2_AtMostOneCallEach ==
  \A t \in Invocations :
    /\ Len(CallsOf(t, "getPublicUrl")) <= 1
    /\ Len(CallsOf(t, "createSignedUrl")) <= 1

\* C2 amended: at most one signed-URL call; at most one public-URL call
\* unless a storage call threw, and then the catch block issues exactly one
\* more public-URL call, right after the call that threw and as the last
\* call (at most two public-URL calls in all, three calls in all).
C2_OneMorePublicCallAfterThrow ==
  \A t \in Invocations :
    LET n == Len(t.calls)
    IN /\ Len(CallsOf(t, "createSignedUrl")) <= 1
       /\ Len(CallsOf(t, "getPublicUrl")) <= 2
       /\ n <= 3
       /\ Len(CallsOf(t, "getPublicUrl")) = 2
            <=> (n >= 2 /\ t.calls[n - 1].ans = "throw")
       /\ \A j \in 1..(n - 1) :
            t.calls[j].ans = "throw" => j = n - 1 /\ t.calls[n].op = "getPublicUrl"

\* C2 witness: a createSignedUrl that threw, followed by the second
\* getPublicUrl of the catch block.
C2_Witness ==
  /\ last.pc = "done"
  /\ Len(last.calls) = 3
  /\ last.calls[2] = Call("createSignedUrl", "throw")
  /\ last.calls[3].op = "getPublicUrl"

\* out is urls with the falsy entries removed, in the same order
IsOrderedSelection(out, urls) ==
  \E f \in [1..Len(out) -> 1..Len(urls)] :
    /\ \A j \in 1..Len(out) : out[j] = urls[f[j]]
    /\ \A j, k \in 1..Len(out) : j < k => f[j] < f[k]
    /\ \A u \in 1..Len(urls) : Truthy(urls[u]) => \E j \in 1..Len(out) : f[j] = u

\* C3: a row returned by productWithAccessibleImages or
\* variationWithAccessibleImages has no null or empty entry in images, the
\* URLs are in the order of their storage keys, images is empty when the
\* input has no images array, and (where image is set) image is the first
\* element of images, or null when images is empty.
C3_ImagesFilteredInOrder ==
  \A p \in 1..Len(clones) :
    LET c == clones[p]
        items == c.src.images.items
    IN /\ \A j \in 1..Len(c.images) : Truthy(c.images[j])
       /\ ~c.src.images.arr => c.images = <<>>
       /\ jpc = "collected" => IsOrderedSelection(c.images, UrlsOf(tasks, p))
       /\ \E f \in [1..Len(c.images) -> 1..Len(items)] :
            /\ \A j \in 1..Len(c.images) : c.images[j].ref = items[f[j]].ref
            /\ \A j, k \in 1..Len(c.images) : j < k => f[j] < f[k]
       /\ c.hasImage =>
            c.image = IF c.images = <<>> THEN Null ELSE c.images[1]

\* C3 witness: a converted product whose second key resolved and whose first
\* did not, and whose image is the URL that is left.
C3_Witness ==
  \E p \in 1..Len(clones) :
    /\ jpc = "collected"
    /\ Len(clones[p].src.images.items) = 2
    /\ ~Truthy(tasks[1].result)
    /\ Len(clones[p].images) = 1
    /\ clones[p].image = clones[p].images[1]

\* a request of the product router has been answered
Answered == driver = "products" /\ hpc = "idle" /\ resp # NoResp

\* a value a client can fetch: made by the storage service, or an http(s)
\* URL to begin with
Accessible(v) == v.kind \in {"public", "signed", "http", "https"}

\* C4: every product in a successful response of POST /, GET /, GET /:id and
\* PUT /:id carries in images only URLs made by the storage service for a
\* key of the stored row, or values of the stored row that were http(s)
\* URLs already; never an internal storage key.
C4_OnlyAccessibleUrlsInResponses ==
  (Answered /\ resp.status = 200 /\ resp.body \in {"product", "products"}) =>
    \A p \in 1..Len(resp.products) :
      LET c == resp.products[p]
          items == c.src.images.items
      IN \A j \in 1..Len(c.images) :
           /\ Accessible(c.images[j])
           /\ c.images[j].kind # "key"
           /\ \E k \in 1..Len(items) :
                \/ IsHttpUrl(items[k]) /\ c.images[j] = items[k]
                \/ items[k].kind = "key"
                     /\ c.images[j] \in {PublicUrl(items[k]), SignedUrl(items[k])}

\* C4 witness: PUT /:id answered with a product whose stored images hold a
\* storage key and whose response holds the URL made for it.
C4_Witness ==
  /\ Answered /\ resp.status = 200 /\ req.route = "PUT /:id"
  /\ \E p \in 1..Len(resp.products) :
       /\ \E k \in 1..Len(resp.products[p].src.images.items) :
            resp.products[p].src.images.items[k].kind = "key"
       /\ \E j \in 1..Len(resp.products[p].images) :
            resp.products[p].images[j].kind \in {"public", "signed"}

\* C6: on GET / and GET /:id a request without token, with an invalid token
\* or with a valid non-admin token is never answered with a product whose
\* is_active is not true, GET /:id answers 404 'Produto nao encontrado' for
\* such a product (500 if the database fails), and the optional-auth
\* middleware rejects no request on these routes.
C6_InactiveProductsOnlyForAdmin ==
  (Answered /\ req.route \in PublicRoutes) =>
    /\ resp.status \notin {401, 403}
    /\ req.token # "admin" =>
         /\ \A p \in 1..Len(resp.products) :
              resp.products[p].src.is_active = "true"
         /\ (req.route = "GET /:id" /\ products[req.id].is_active # "true") =>
              resp \in {Response(404, "Produto nao encontrado"), Response(500, "error")}

\* C6 witness: a valid non-admin token asked GET /:id for a stored product
\* that is not active and got 404.
C6_Witness ==
  /\ Answered /\ req.route = "GET /:id" /\ req.token = "user"
  /\ products[req.id] # NoRow /\ products[req.id].is_active = "false"
  /\ resp = Response(404, "Produto nao encontrado")

\* the database operations among the operations of a request
DbOps(o) ==
  SelectSeq(o, LAMBDA x : x \in {"db.insert", "db.select", "db.update", "db.delete"})

Uploads(n) == [i \in 1..n |-> "storage.upload"]

\* the requests of the settings router that have been answered by a handler
SAnswered(r) == driver = "settings" /\ sreq[r].pc = "answered"

GetAllAnswered(r) ==
  SAnswered(r) /\ sreq[r].handler \in {"getAll", "getAll.catch"}

\* C7 as stated: every answer of GET / with status 200 carries a settings
\* object with the three background keys, the defaults standing in for the
\* rows the table lacks.
C7_BackgroundKeysInEvery200 ==
  \A r \in Slots :
    (GetAllAnswered(r) /\ sreq[r].resp.status = 200) =>
      \A k \in BackgroundKeys :
        /\ sreq[r].resp.settings[k] # NoSetting
        /\ settings[k] = NoSetting => sreq[r].resp.settings[k] = DefaultSetting(k)

\* C7 amended: whenever the select of GET / returns rows, the answer has
\* status 200 and its settings object holds every stored row and the three
\* background keys, with the defaults 'color', '#f5f5f5' and '' for the
\* background rows the table lacks; a 200 answered for a select that
\* failed carries an empty object, without the background keys.
C7_BackgroundKeysWhenRowsReturned ==
  \A r \in Slots :
    GetAllAnswered(r) =>
      LET q == sreq[r]
      IN IF q.err = NoErr
         THEN /\ q.resp.status = 200
              /\ \A k \in SettingKeys :
                   q.resp.settings[k] =
                     IF settings[k] # NoSetting THEN settings[k]
                     ELSE CASE k = "site_background_type" -> Setting("color", "text")
                            [] k = "site_background_value" -> Setting("#f5f5f5", "text")
                            [] k = "site_background_video_url" -> Setting("", "text")
                            [] OTHER -> NoSetting
         ELSE q.resp.status = 200 => q.resp.settings = EmptyTable

\* C7 witness: the table holds site_background_type and lacks
\* site_background_value; the answer carries the stored row and the default.
C7_Witness ==
  \E r \in Slots :
    /\ GetAllAnswered(r) /\ sreq[r].err = NoErr
    /\ settings["site_background_type"] = Setting("image", "text")
    /\ settings["site_background_value"] = NoSetting
    /\ sreq[r].resp.settings["site_background_type"] = Setting("image", "text")
    /\ sreq[r].resp.settings["site_background_value"] = Setting("#f5f5f5", "text")

\* the message of an error has one of these phrases
HasPhrase(e, phrases) == \E i \in 1..Len(e.msg) : e.msg[i] \in phrases

EmptyOk == SResponse(200, "settings")

\* C8 as stated: a database error of GET / is answered 200 with an empty
\* settings object when its code is 42P01 or its message has 'does not
\* exist' or 'relation', and 500 otherwise.
C8_MissingTableOnlyAnswersEmpty ==
  \A r \in Slots :
    (GetAllAnswered(r) /\ sreq[r].err # NoErr) =>
      sreq[r].resp =
        IF sreq[r].err.code = "42P01"
             \/ HasPhrase(sreq[r].err, {"does not exist", "relation"})
        THEN EmptyOk
        ELSE SResponse(500, "error")

\* C8 amended: a database error of GET / is answered 200 with an empty
\* settings object when its code is 42P01 or its message has 'does not
\* exist', 'relation' or 'nao existe', and also, when the error comes in the
\* answer of the select rather than as an exception, when its code is
\* PGRST116; any other database error is answered 500.
C8_MissingTableOrNoRowsAnswersEmpty ==
  \A r \in Slots :
    (GetAllAnswered(r) /\ sreq[r].err # NoErr) =>
      LET e == sreq[r].err
          named == e.code = "42P01"
                     \/ HasPhrase(e, {"does not exist", "relation", "nao existe"})
          returned == sreq[r].handler = "getAll"
      IN sreq[r].resp =
           IF named \/ (returned /\ e.code = "PGRST116")
           THEN EmptyOk
           ELSE SResponse(500, "error")

\* C8 witness: the select answered 42P01 with a message in Portuguese and
\* GET / answered 200 with an empty object.
C8_Witness ==
  \E r \in Slots :
    /\ GetAllAnswered(r) /\ sreq[r].handler = "getAll"
    /\ sreq[r].err = Err("42P01", <<"relacao", "site_settings", "nao existe">>)
    /\ sreq[r].resp = EmptyOk

\* C9 as stated: an admin PUT /:key with a value is an upsert under any
\* interleaving of two requests: a success answers the submitted value,
\* with type 'text' and 'Configuracao criada com sucesso' when the row was
\* created and 'Configuracao atualizada com sucesso' when it was updated,
\* and the row exists; no request loses its answer to a 500 because of the
\* other one (a 500 is answered only when the database is unavailable).
C9_UpsertUnderConcurrentPuts ==
  \A r \in Slots :
    (SAnswered(r) /\ sreq[r].handler = "putKey" /\ sreq[r].token = "admin"
       /\ sreq[r].value # "undefined") =>
      LET q == sreq[r]
      IN /\ q.resp.status \in {200, 500}
         /\ q.resp.status = 200 =>
              /\ settings[q.path[1]] # NoSetting
              /\ q.resp.setting.value = q.value
              /\ q.resp.message \in {"Configuracao criada com sucesso",
                                     "Configuracao atualizada com sucesso"}
              /\ q.resp.message = "Configuracao criada com sucesso"
                   => q.resp.setting.type = "text"
         /\ q.resp.status = 500 => q.err = Unavailable

\* C10 as stated: an admin GET /initialize is served by the initialize
\* handler, and when it answers 'Configuracoes inicializadas com sucesso'
\* the six default keys are present.
C10_InitializeReachesItsHandler ==
  \A r \in Slots :
    (SAnswered(r) /\ sreq[r].method = "GET" /\ sreq[r].path = <<"initialize">>
       /\ sreq[r].token = "admin") =>
      /\ sreq[r].handler = "initialize"
      /\ sreq[r].resp.message = "Configuracoes inicializadas com sucesso"
      /\ \A k \in DefaultKeys : settings[k] # NoSetting

\* C11 as stated: an admin POST /site_background_video/upload with a video
\* in field 'video' is served by the video handler and not by the handler
\* of POST /:key/upload; unless the storage or the database fails, the
\* answer is 'Video enviado com sucesso' and site_background_video_url
\* holds the file's public URL with type 'video'.
C11_VideoUploadReachesItsHandler ==
  \A r \in Slots :
    (SAnswered(r) /\ sreq[r].method = "POST"
       /\ sreq[r].path = <<"site_background_video", "upload">>
       /\ sreq[r].token = "admin"
       /\ sreq[r].file = File("video", "mp4", "video/mp4")) =>
      /\ sreq[r].handler = "uploadVideo"
      /\ sreq[r].resp.status \in {200, 500}
      /\ sreq[r].resp.status = 200 =>
           /\ sreq[r].resp.message = "Video enviado com sucesso"
           /\ settings["site_background_video_url"] = Setting(UploadedUrl, "video")

\* a request of the variations router has been answered
VAnswered == driver = "variations" /\ hpc = "idle" /\ resp # NoResp

\* a field of the body that is missing or empty
MissingOrEmpty(v) == v = "undefined" \/ v = ""

\* C12: POST / of the variations router validates the required fields
\* first: an admin request whose product_id or name is missing or empty is
\* answered 400 'Campos obrigatorios: product_id e name', and no storage
\* upload and no database insert is made for it: the handler goes on to
\* the uploads and the insert only with both fields given.
C12_RequiredFieldsValidatedFirst ==
  (driver = "variations"
     /\ (MissingOrEmpty(req.body.product_id) \/ MissingOrEmpty(req.body.name))) =>
    /\ ops = <<>>
    /\ hpc = "idle"
    /\ (resp # NoResp /\ req.token = "admin") =>
         resp = Response(400, "Campos obrigatorios: product_id e name")

\* C12 witness: an admin POST with a file, a product_id and an empty name
\* was answered 400 with nothing uploaded or inserted.
C12_Witness ==
  /\ VAnswered /\ req.token = "admin" /\ req.files > 0
  /\ req.body.product_id = "1" /\ req.body.name = ""
  /\ resp = Response(400, "Campos obrigatorios: product_id e name")
  /\ ops = <<>>

\* a listing request has been answered with products
Listed == driver = "listing" /\ hpc = "idle" /\ resp.status = 200

\* the ids of the products in the response
Returned == {resp.products[i].src.id : i \in 1..Len(resp.products)}

\* the parts of a parameter that name something
Named(parts) == {parts[i] : i \in {j \in 1..Len(parts) : parts[j] \notin {"", " "}}}

\* C13 as stated: when the categories parameter names at least one
\* category, known or not, every product GET / returns has a type of one
\* of the named categories (roupas, calcados, acessorios per
\* categoryTypeMap), and with a types parameter its type is one of those
\* types as well.
C13_CategoriesFilterRestricts ==
  (Listed /\ Named(req.query.categories) # {}) =>
    \A i \in 1..Len(resp.products) :
      /\ \E c \in Named(req.query.categories) :
           resp.products[i].src.type \in CategoryTypeMap(c)
      /\ Named(req.query.types) # {} =>
           resp.products[i].src.type \in Named(req.query.types)

\* the interval each priceRange value stands for, in centavos
InRange(priceRange, p) ==
  CASE priceRange = "0-50" -> 0 <= p /\ p <= 5000
    [] priceRange = "50-100" -> 5000 < p /\ p <= 10000
    [] priceRange = "100-200" -> 10000 < p /\ p <= 20000
    [] priceRange = "200+" -> 20000 < p
    [] OTHER -> TRUE

FourRanges == {"0-50", "50-100", "100-200", "200+"}

\* C14: the price predicates of '0-50', '50-100', '100-200' and '200+'
\* partition the prices >= 0: the price of every stored product satisfies
\* the clauses of exactly one of them, 50, 100 and 200 falling in the lower
\* range; a listing asked with one of them returns exactly the products of
\* its interval, and one asked with 'all', without priceRange or with an
\* unrecognised value returns every product.
C14_PriceRangesPartition ==
  (Listed /\ req.query.types = <<>> /\ req.query.categories = <<>>) =>
    \A id \in ProductIds :
      products[id] # NoRow =>
        LET p == products[id].price
            satisfied == {r \in FourRanges :
                            \A i \in 1..Len(PriceClauses(r)) :
                              Holds(PriceClauses(r)[i], products[id])}
        IN /\ Cardinality(satisfied) = 1
           /\ \A r \in FourRanges : r \in satisfied <=> InRange(r, p)
           /\ id \in Returned <=> InRange(req.query.priceRange, p)

\* C14 witness: a product priced 50 is left out of the listing asked with
\* priceRange '50-100'.
C14_Witness ==
  /\ Listed /\ req.query.priceRange = "50-100"
  /\ \E id \in ProductIds : products[id] # NoRow /\ products[id].price = 5000
  /\ Returned = {}

====
